---- MODULE Spec2Model ----
(***************************************************************************)
(* Model of the BabylonPiles storage service (src/storage/storage_service  *)
(* .py): the StorageManager's in-memory collections, the files the service *)
(* copies and removes on the drives, the request handlers (allocate,       *)
(* migrate, delete) and the background migration worker.                   *)
(*                                                                         *)
(* Sizes are in model units; one unit stands for any fixed number of bytes.*)
(* A chunk id f"{file_id}_chunk_{n}" is the pair <<file_id, n>>, and the    *)
(* path f"{drive.path}/chunks/{chunk_id}" is the pair <<drive_id, chunk_id>>*)
(* ChunkInfo objects live in a heap, because the migration worker keeps a  *)
(* reference to the object it fetched (storage_service.py:390) while the   *)
(* handlers may delete or replace the dict entry it was fetched from.      *)
(*                                                                         *)
(* Specifications: Spec (requests, writes and worker steps interleaved,    *)
(* each as a whole), SpecSeq (one operation at a time), SpecLive (Spec     *)
(* with the workers scheduled), SpecThreads (handlers and workers          *)
(* statement by statement), SpecPlace (placement on scanned drives),       *)
(* SpecRestart (Spec with the process stopped and started again),          *)
(* SpecCrash (SpecRestart with a stop in the middle of a save),            *)
(* SpecUnsaved (SpecSeq with the metadata directory failing), SpecScan     *)
(* (scans and requests on a host whose drives come and go), SpecScanner    *)
(* (the scanner thread, scheduled), SpecProxy (SpecSeq with requests       *)
(* through the backend), SpecRace (Spec with every delete recorded) and    *)
(* SpecFault (SpecSeq with os.remove raising).                             *)
(***************************************************************************)
EXTENDS Integers, Sequences, FiniteSets, TLC

\* self.chunk_size (storage_service.py:95), in model units
ChunkSize == 2

\* Bounds of the model
MaxFileSize == 3
MaxMigrations == 2
MaxRequests == 3
MaxCalls == 2
MaxFaults == 1

DriveIds == {"hdd1", "hdd2", "hdd3"}
FileIds == {"f1", "f2"}
FileSizes == 0 .. MaxFileSize
ChunkNums == 0 .. (((MaxFileSize + ChunkSize - 1) \div ChunkSize) - 1)
ChunkIds == FileIds \X ChunkNums
\* what a migrate request may name: the known ids and one unknown id of each kind
NoSuchDrive == "hdd9"
NoSuchChunk == <<"f9", 0>>
NoDrive == "None"

VARIABLES
    driveOrder,        \* insertion order of the keys of self.drives
    drives,            \* self.drives: drive_id -> DriveInfo
    chunks,            \* self.chunks: chunk_id -> reference to a ChunkInfo object
    heap,              \* the ChunkInfo objects ever created, by reference
    migrations,        \* self.migrations: task id -> MigrationTask, with its worker's position
    file_allocations,  \* self.file_allocations: file_id -> StorageAllocation
    fs,                \* the chunk files on the drives: path -> file
    written,           \* the objects whose bytes the caller has written (out of band)
    disk,              \* /app/data/metadata: the collections as save_metadata last wrote them
    threads,           \* the request handlers that run step by step, with their locals
    ledger,            \* history: every drive's counters with each update applied in turn
    last,              \* history: the last request, its response, the collections before it
    requests,          \* history: the number of requests made
    env                \* the host: the mount paths that exist, the state of /app/data/metadata

vars == <<driveOrder, drives, chunks, heap, migrations, file_allocations, fs, written, disk,
          threads, ledger, last, requests, env>>

\* Python dicts: the empty dict, d[k] = v, and del d[k]
EmptyDict == [k \in {} |-> 0]
Put(d, k, v) == [x \in DOMAIN d \cup {k} |-> IF x = k THEN v ELSE d[x]]
Del(d, k) == [x \in DOMAIN d \ {k} |-> d[x]]

Min(a, b) == IF a < b THEN a ELSE b

\* f"{self.drives[drive_id].path}/chunks/{chunk_id}"
PathOf(drive_id, chunk_id) == <<drive_id, chunk_id>>

\* a file on a drive: absent, partially written, or the full bytes of object `of`
Absent == [state |-> "absent", of |-> 0]
Partial(o) == [state |-> "partial", of |-> o]
Full(o) == [state |-> "full", of |-> o]
Exists(files, path) == path \in DOMAIN files /\ files[path].state # "absent"

DriveInfo(total, free, used, status) ==
    [total_space |-> total, free_space |-> free, used_space |-> used, status |-> status,
     health |-> "healthy"]

\* chunk_count of find_best_drive_for_chunk: entries of self.chunks on the drive
ChunkCount(ch, hp, drive_id) ==
    Cardinality({c \in DOMAIN ch : hp[ch[c]].drive_id = drive_id})

\* 100 * total_space * score, an integer: score = 0.6 * free/total
\* + 0.3 * (1 - used/total) - min(0.01 * chunk_count, 0.3). The code computes the
\* score in floating point; the model compares the exact values.
ScoreNum(dr, ch, hp, d) ==
    60 * dr[d].free_space + 30 * (dr[d].total_space - dr[d].used_space)
      - Min(ChunkCount(ch, hp, d), 30) * dr[d].total_space

\* ScoreGreater with a slip: the sort is ascending (reverse=True left out)
ScoreGreater_Ascending(dr, ch, hp, a, b) ==
    ScoreNum(dr, ch, hp, a) * dr[b].total_space < ScoreNum(dr, ch, hp, b) * dr[a].total_space

\* score(a) > score(b), by cross-multiplication (totals of eligible drives are positive)
ScoreGreater(dr, ch, hp, a, b) ==
    ScoreNum(dr, ch, hp, a) * dr[b].total_space > ScoreNum(dr, ch, hp, b) * dr[a].total_space

\* the filter of find_best_drive_for_chunk with a slip: the status is not looked at
Eligible_AnyStatus(dr, d, chunk_size) ==
    dr[d].free_space >= chunk_size

Eligible(dr, d, chunk_size) ==
    dr[d].status = "active" /\ dr[d].free_space >= chunk_size

\* find_best_drive_for_chunk with a slip: of the candidates with the top score the
\* last in dict order wins
find_best_drive_for_chunk_Last(order, dr, ch, hp, chunk_size) ==
    LET cand == {i \in 1 .. Len(order) : Eligible(dr, order[i], chunk_size)}
        best == {i \in cand : \A j \in cand : ~ScoreGreater(dr, ch, hp, order[j], order[i])}
    IN IF cand = {} THEN NoDrive
       ELSE order[CHOOSE i \in best : \A j \in best : i >= j]

\* candidates are collected in dict order and sorted by score, descending, with a
\* stable sort: the winner is the first candidate in dict order with the top score
find_best_drive_for_chunk(order, dr, ch, hp, chunk_size) ==
    LET cand == {i \in 1 .. Len(order) : Eligible(dr, order[i], chunk_size)}
        best == {i \in cand : \A j \in cand : ~ScoreGreater(dr, ch, hp, order[j], order[i])}
    IN IF cand = {} THEN NoDrive
       ELSE order[CHOOSE i \in best : \A j \in best : i <= j]

\* The metadata files: drives.json, chunks.json and migrations.json are written from the
\* three collections (self.file_allocations is not written). A chunk is saved by
\* value; ref is the object it was, which the object loaded from it stands for.
\* `torn` names the files that are cut short: none after a save that ran to its end.
MetadataFiles(dr, ch, hp, mg) ==
    [drives |-> dr,
     chunks |-> [c \in DOMAIN ch |-> [ref |-> ch[c], rec |-> hp[ch[c]]]],
     migrations |-> mg,
     torn |-> {}]

\* the host the service starts on: the three mount paths exist and the metadata
\* directory can be written
Host == [mounted |-> DriveIds, removed |-> {}, writable |-> TRUE, faults |-> 0]

\* the files after save_metadata: when a file cannot be opened for writing, the
\* exception is caught and logged (lines 160-161), and the files stay as they were
save_metadata(dr, ch, hp, mg) ==
    IF env.writable THEN MetadataFiles(dr, ch, hp, mg) ELSE disk

\* a request handler's thread between two requests
IdleThread == [pc |-> "idle"]
Handlers == {1, 2}

\* the space counters of the drives
Counters(dr) ==
    [d \in DOMAIN dr |-> [free_space |-> dr[d].free_space, used_space |-> dr[d].used_space]]

\* The service after construction and the first scan of its scanner thread: three
\* mounted drives measured (hdd3 not writable), no chunk, no task, no allocation
Init ==
    /\ driveOrder = <<"hdd1", "hdd2", "hdd3">>
    /\ drives = [d \in DriveIds |->
                   CASE d = "hdd1" -> DriveInfo(2, 2, 0, "active")
                     [] d = "hdd2" -> DriveInfo(4, 2, 2, "active")
                     [] OTHER -> DriveInfo(4, 4, 0, "readonly")]
    /\ chunks = EmptyDict
    /\ heap = <<>>
    /\ migrations = <<>>
    /\ file_allocations = EmptyDict
    /\ fs = [p \in DriveIds \X ChunkIds |-> Absent]
    /\ written = {}
    /\ env = Host
    /\ disk = save_metadata(drives, chunks, heap, migrations)
    /\ threads = [t \in Handlers |-> IdleThread]
    /\ ledger = Counters(drives)
    /\ last = [op |-> "none", code |-> 0]
    /\ requests = 0

\* ChunkInfo(id=..., file_id=..., drive_id=..., path=..., size=..., status="allocated")
ChunkInfo(chunk_id, file_id, drive_id, size) ==
    [id |-> chunk_id, file_id |-> file_id, drive_id |-> drive_id,
     path |-> PathOf(drive_id, chunk_id), size |-> size, status |-> "allocated"]

\* AllocStep with a slip: every chunk is recorded with the configured chunk size
AllocStep_FixedSize(st, file_id, drive_id, chunk_size) ==
    LET chunk_id == <<file_id, st.chunk_number>>
        o == Len(st.heap) + 1
    IN [st EXCEPT
          !.heap = Append(st.heap, ChunkInfo(chunk_id, file_id, drive_id, ChunkSize)),
          !.chunks = Put(st.chunks, chunk_id, o),
          !.placed = Append(st.placed,
                            [id |-> chunk_id, drive_id |-> drive_id,
                             path |-> PathOf(drive_id, chunk_id), size |-> ChunkSize]),
          !.drives = [st.drives EXCEPT
                        ![drive_id].free_space = @ - chunk_size,
                        ![drive_id].used_space = @ + chunk_size],
          !.remaining_size = @ - chunk_size,
          !.chunk_number = @ + 1]

\* one pass of the while loop of allocate_file on the loop's state st; the drive is
\* debited in the same pass the chunk is recorded
AllocStep(st, file_id, drive_id, chunk_size) ==
    LET chunk_id == <<file_id, st.chunk_number>>
        o == Len(st.heap) + 1
    IN [st EXCEPT
          !.heap = Append(st.heap, ChunkInfo(chunk_id, file_id, drive_id, chunk_size)),
          !.chunks = Put(st.chunks, chunk_id, o),
          !.placed = Append(st.placed,
                            [id |-> chunk_id, drive_id |-> drive_id,
                             path |-> PathOf(drive_id, chunk_id), size |-> chunk_size]),
          !.drives = [st.drives EXCEPT
                        ![drive_id].free_space = @ - chunk_size,
                        ![drive_id].used_space = @ + chunk_size],
          !.remaining_size = @ - chunk_size,
          !.chunk_number = @ + 1]

\* the while loop of allocate_file: ends with ok = FALSE where the code raises 507
RECURSIVE AllocLoop(_, _, _)
AllocLoop(st, order, file_id) ==
    IF st.remaining_size <= 0 THEN st
    ELSE LET chunk_size == Min(st.self_chunk_size, st.remaining_size)
             drive_id == find_best_drive_for_chunk(order, st.drives, st.chunks, st.heap,
                                                   chunk_size)
         IN IF drive_id = NoDrive THEN [st EXCEPT !.ok = FALSE]
            ELSE AllocLoop(AllocStep(st, file_id, drive_id, chunk_size), order, file_id)

\* AllocRunAt with a slip: the chunks are numbered from 1
AllocRunAt_FromOne(chunk_size, file_size, file_id) ==
    AllocLoop([drives |-> drives, chunks |-> chunks, heap |-> heap, placed |-> <<>>,
               remaining_size |-> file_size, chunk_number |-> 1, ok |-> TRUE,
               self_chunk_size |-> chunk_size],
              driveOrder, file_id)

\* allocate_file up to the end of its loop, in a service whose self.chunk_size
\* (the CHUNK_SIZE of its environment) is chunk_size
AllocRunAt(chunk_size, file_size, file_id) ==
    AllocLoop([drives |-> drives, chunks |-> chunks, heap |-> heap, placed |-> <<>>,
               remaining_size |-> file_size, chunk_number |-> 0, ok |-> TRUE,
               self_chunk_size |-> chunk_size],
              driveOrder, file_id)

AllocRun(file_size, file_id) == AllocRunAt(ChunkSize, file_size, file_id)

\* POST /allocate: StorageManager.allocate_file. On 507 the exception leaves the
\* function where it is raised: what the loop has done so far stays done, and
\* neither the allocation is stored nor the metadata saved.
allocate_file_at(chunk_size, file_size, file_id) ==
    LET r == AllocRunAt(chunk_size, file_size, file_id)
    IN /\ drives' = r.drives
       /\ chunks' = r.chunks
       /\ heap' = r.heap
       /\ file_allocations' =
             IF r.ok
             THEN Put(file_allocations, file_id,
                      [file_id |-> file_id, file_size |-> file_size,
                       chunks |-> r.placed, status |-> "allocated"])
             ELSE file_allocations
       /\ disk' = IF r.ok THEN save_metadata(r.drives, r.chunks, r.heap, migrations) ELSE disk
       /\ UNCHANGED <<driveOrder, migrations, fs, written>>

\* the service as configured in the other specifications
allocate_file(file_size, file_id) == allocate_file_at(ChunkSize, file_size, file_id)

\* the caller writes the bytes of a chunk it was allocated at the chunk's recorded
\* path (the service reserves the location and never writes the bytes itself)
WriteChunk(chunk_id) ==
    /\ chunk_id \in DOMAIN chunks
    /\ chunks[chunk_id] \notin written
    /\ fs' = [fs EXCEPT ![heap[chunks[chunk_id]].path] = Full(chunks[chunk_id])]
    /\ written' = written \cup {chunks[chunk_id]}
    /\ UNCHANGED <<driveOrder, drives, chunks, heap, migrations, file_allocations, disk>>

\* MigrateCode with a slip: any task of the chunk, finished or not, is a conflict
MigrateCode_AnyTask(chunk_id, target_drive) ==
    IF chunk_id \notin DOMAIN chunks THEN 404
    ELSE IF target_drive \notin DOMAIN drives THEN 404
    ELSE IF heap[chunks[chunk_id]].drive_id = target_drive THEN 400
    ELSE IF \E m \in DOMAIN migrations : migrations[m].chunk_id = chunk_id THEN 400
    ELSE IF drives[target_drive].free_space < heap[chunks[chunk_id]].size THEN 507
    ELSE 200

\* MigrateCode with a slip: the target's space is checked before the drives are compared
MigrateCode_SpaceFirst(chunk_id, target_drive) ==
    IF chunk_id \notin DOMAIN chunks THEN 404
    ELSE IF target_drive \notin DOMAIN drives THEN 404
    ELSE IF drives[target_drive].free_space < heap[chunks[chunk_id]].size THEN 507
    ELSE IF heap[chunks[chunk_id]].drive_id = target_drive THEN 400
    ELSE 200

\* the response of migrate_chunk, by its checks in the order the code makes them
MigrateCode(chunk_id, target_drive) ==
    IF chunk_id \notin DOMAIN chunks THEN 404
    ELSE IF target_drive \notin DOMAIN drives THEN 404
    ELSE IF heap[chunks[chunk_id]].drive_id = target_drive THEN 400
    ELSE IF drives[target_drive].free_space < heap[chunks[chunk_id]].size THEN 507
    ELSE 200

\* MigrationTask(id=..., status="queued", progress=0.0, ...), and the thread started
\* for it: pc is the position of the task's worker, chunk the object it fetched,
\* loaded and tmp the counter value it has read and not yet written back
MigrationTask(migration_id, chunk_id, source_drive, target_drive) ==
    [id |-> migration_id, chunk_id |-> chunk_id, source_drive |-> source_drive,
     target_drive |-> target_drive, status |-> "queued", progress |-> 0,
     pc |-> "start", chunk |-> 0, error |-> "", loaded |-> FALSE, tmp |-> 0]

\* migrate_chunk with a slip: the task is created and saved before the space check
migrate_chunk_TaskFirst(chunk_id, target_drive) ==
    LET code == MigrateCode(chunk_id, target_drive)
        migration_id == Len(migrations) + 1
    IN /\ code \in {200, 507} => migration_id <= MaxMigrations
       /\ migrations' =
             IF code \in {200, 507}
             THEN Append(migrations,
                         MigrationTask(migration_id, chunk_id,
                                       heap[chunks[chunk_id]].drive_id, target_drive))
             ELSE migrations
       /\ disk' = IF code \in {200, 507}
                  THEN save_metadata(drives, chunks, heap, migrations') ELSE disk
       /\ UNCHANGED <<driveOrder, drives, chunks, heap, file_allocations, fs, written>>

\* POST /migrate: StorageManager.migrate_chunk (a uuid4 is a fresh id: the next number)
migrate_chunk(chunk_id, target_drive) ==
    LET code == MigrateCode(chunk_id, target_drive)
        migration_id == Len(migrations) + 1
    IN /\ code = 200 => migration_id <= MaxMigrations
       /\ migrations' =
             IF code = 200
             THEN Append(migrations,
                         MigrationTask(migration_id, chunk_id,
                                       heap[chunks[chunk_id]].drive_id, target_drive))
             ELSE migrations
       /\ disk' = IF code = 200 THEN save_metadata(drives, chunks, heap, migrations') ELSE disk
       /\ UNCHANGED <<driveOrder, drives, chunks, heap, file_allocations, fs, written>>

\* _perform_migration, lines 389-395: the worker fetches the task and the chunk
\* object (a KeyError here is outside the try: the thread ends and the task stays
\* as it is), then marks the task migrating
MigrationStart(m) ==
    /\ m \in DOMAIN migrations
    /\ migrations[m].pc = "start"
    /\ migrations' =
          IF migrations[m].chunk_id \in DOMAIN chunks
          THEN [migrations EXCEPT ![m].chunk = chunks[migrations[m].chunk_id],
                                  ![m].status = "migrating",
                                  ![m].pc = "copy"]
          ELSE [migrations EXCEPT ![m].pc = "dead"]
    /\ disk' = IF migrations[m].chunk_id \in DOMAIN chunks
               THEN save_metadata(drives, chunks, heap, migrations') ELSE disk
    /\ UNCHANGED <<driveOrder, drives, chunks, heap, file_allocations, fs, written>>

\* f"{self.drives[migration.target_drive].path}/chunks/{chunk.id}"
TargetPath(m) == PathOf(migrations[m].target_drive, heap[migrations[m].chunk].id)

\* what rsync leaves at the target path when it fails: nothing new, or a partial file
RsyncLeftovers(m) ==
    {fs[TargetPath(m)], Partial(fs[heap[migrations[m].chunk].path].of)}

\* MarkFailed with a slip: the task is put back in the queue
MarkFailed_Requeued(m, e) ==
    [migrations EXCEPT ![m].status = "queued", ![m].pc = "done", ![m].error = e]

\* except Exception as e: migration.status = "failed"; error is the exception logged
MarkFailed(m, e) ==
    [migrations EXCEPT ![m].status = "failed", ![m].pc = "done", ![m].error = e]

\* _perform_migration, lines 397-411 and 430-440: the source file is checked and
\* rsync copies it to the target path; a missing source or a non-zero return code
\* raises, the handler marks the task failed and the metadata is saved
MigrationCopy(m) ==
    /\ m \in DOMAIN migrations
    /\ migrations[m].pc = "copy"
    /\ LET src == heap[migrations[m].chunk].path
       IN IF ~Exists(fs, src)
          THEN /\ migrations' = MarkFailed(m, "source not found")
               /\ fs' = fs
               /\ disk' = save_metadata(drives, chunks, heap, migrations')
          ELSE \/ /\ fs' = [fs EXCEPT ![TargetPath(m)] = fs[src]]
                  /\ migrations' = [migrations EXCEPT ![m].pc = "switch"]
                  /\ disk' = disk
               \/ /\ \E left \in RsyncLeftovers(m) : fs' = [fs EXCEPT ![TargetPath(m)] = left]
                  /\ migrations' = MarkFailed(m, "rsync failed")
                  /\ disk' = save_metadata(drives, chunks, heap, migrations')
    /\ UNCHANGED <<driveOrder, drives, chunks, heap, file_allocations, written>>

\* lines 413-414: chunk.drive_id = migration.target_drive; chunk.path = target_path
SwitchChunk(hp, m) ==
    [hp EXCEPT ![migrations[m].chunk].drive_id = migrations[m].target_drive,
               ![migrations[m].chunk].path = TargetPath(m)]

\* SwitchDrives with a slip: the source drive's used_space is not decreased
SwitchDrives_NoUsed(dr, m) ==
    LET size == heap[migrations[m].chunk].size
        credited == [dr EXCEPT ![migrations[m].source_drive].free_space = @ + size]
    IN [credited EXCEPT ![migrations[m].target_drive].free_space = @ - size,
                        ![migrations[m].target_drive].used_space = @ + size]

\* lines 417-420: the source drive is credited and the target drive debited
SwitchDrives(dr, m) ==
    LET size == heap[migrations[m].chunk].size
        credited == [dr EXCEPT ![migrations[m].source_drive].free_space = @ + size,
                               ![migrations[m].source_drive].used_space = @ - size]
    IN [credited EXCEPT ![migrations[m].target_drive].free_space = @ - size,
                        ![migrations[m].target_drive].used_space = @ + size]

\* line 423: os.remove(chunk.path), read after chunk.path was assigned
RemovedPath(hp, m) == hp[migrations[m].chunk].path

\* _perform_migration, lines 411-427: after a copy that returned 0 the chunk record
\* and the drive counters are switched, os.remove is called and the task is marked
\* completed; os.remove raises when its file is missing, and the task is marked failed
MigrationSwitch(m) ==
    /\ m \in DOMAIN migrations
    /\ migrations[m].pc = "switch"
    /\ heap' = SwitchChunk(heap, m)
    /\ drives' = SwitchDrives(drives, m)
    /\ LET gone == RemovedPath(heap', m)
       IN IF Exists(fs, gone)
          THEN /\ fs' = [fs EXCEPT ![gone] = Absent]
               /\ migrations' = [migrations EXCEPT ![m].status = "completed",
                                                   ![m].progress = 100,
                                                   ![m].pc = "done"]
          ELSE /\ fs' = fs
               /\ migrations' = MarkFailed(m, "remove failed")
    /\ disk' = save_metadata(drives', chunks, heap', migrations')
    /\ UNCHANGED <<driveOrder, chunks, file_allocations, written>>

\* the loop of delete_file over allocation.chunks, from its i-th entry, on the
\* loop's state st
RECURSIVE DeleteLoop(_, _, _)
DeleteLoop(st, refs, i) ==
    IF i > Len(refs) THEN st
    ELSE IF refs[i].id \notin DOMAIN st.chunks THEN DeleteLoop(st, refs, i + 1)
    ELSE LET chunk == heap[st.chunks[refs[i].id]]
         IN DeleteLoop(
              [fs |-> IF Exists(st.fs, chunk.path)
                      THEN [st.fs EXCEPT ![chunk.path] = Absent] ELSE st.fs,
               drives |-> [st.drives EXCEPT
                             ![chunk.drive_id].free_space = @ + chunk.size,
                             ![chunk.drive_id].used_space = @ - chunk.size],
               chunks |-> Del(st.chunks, refs[i].id)],
              refs, i + 1)

\* DELETE /files/{file_id}: delete_file
delete_file(file_id) ==
    IF file_id \notin DOMAIN file_allocations
    THEN UNCHANGED <<driveOrder, drives, chunks, heap, migrations, file_allocations, fs,
                     written, disk>>
    ELSE LET r == DeleteLoop([fs |-> fs, drives |-> drives, chunks |-> chunks],
                             file_allocations[file_id].chunks, 1)
         IN /\ fs' = r.fs
            /\ drives' = r.drives
            /\ chunks' = r.chunks
            /\ file_allocations' = Del(file_allocations, file_id)
            /\ disk' = save_metadata(r.drives, r.chunks, heap, migrations)
            /\ UNCHANGED <<driveOrder, heap, migrations, written>>

\* the status code of POST /allocate and of DELETE /files/{file_id}
AllocateCodeAt(chunk_size, file_size, file_id) ==
    IF AllocRunAt(chunk_size, file_size, file_id).ok THEN 200 ELSE 507
AllocateCode(file_size, file_id) == AllocateCodeAt(ChunkSize, file_size, file_id)
DeleteCode(file_id) == IF file_id \in DOMAIN file_allocations THEN 200 ELSE 404

\* the record of a request: its inputs, its response, and the collections it found
Request(op, code, file_id, file_size, chunk_id, target_drive) ==
    [op |-> op, code |-> code, file_id |-> file_id, file_size |-> file_size,
     chunk_id |-> chunk_id, target_drive |-> target_drive,
     drives |-> drives, chunks |-> chunks, heap |-> heap, fs |-> fs,
     migrations |-> migrations, file_allocations |-> file_allocations]

\* no migration worker is running
Idle == \A m \in DOMAIN migrations : migrations[m].pc \in {"done", "dead", "none"}

ChunkInputs == ChunkIds \cup {NoSuchChunk}
DriveInputs == DriveIds \cup {NoSuchDrive}

\* one more request is made, of the MaxRequests the model follows
Counted == requests < MaxRequests /\ requests' = requests + 1

\* a step that runs as a whole: it applies its updates to the counters as they are
Booked ==
    ledger' = [d \in DOMAIN ledger |->
                 [free_space |-> ledger[d].free_space
                                   + (drives'[d].free_space - drives[d].free_space),
                  used_space |-> ledger[d].used_space
                                   + (drives'[d].used_space - drives[d].used_space)]]
Whole == Booked /\ UNCHANGED <<threads, env>>
History == <<last, requests>>

\* Requests, caller's writes and worker steps in any interleaving
Next ==
    \/ \E n \in FileSizes, f \in FileIds : Counted /\ allocate_file(n, f) /\ Whole /\ UNCHANGED last
    \/ \E c \in ChunkIds : WriteChunk(c) /\ Whole /\ UNCHANGED History
    \/ \E c \in ChunkInputs, t \in DriveInputs :
          Counted /\ migrate_chunk(c, t) /\ Whole /\ UNCHANGED last
    \/ \E m \in 1 .. MaxMigrations : MigrationStart(m) /\ Whole /\ UNCHANGED History
    \/ \E m \in 1 .. MaxMigrations : MigrationCopy(m) /\ Whole /\ UNCHANGED History
    \/ \E m \in 1 .. MaxMigrations : MigrationSwitch(m) /\ Whole /\ UNCHANGED History
    \/ \E f \in FileIds : Counted /\ delete_file(f) /\ Whole /\ UNCHANGED last

Spec == Init /\ [][Next]_vars

\* the steps of the thread started for task m (line 380)
WorkerOf(m) ==
    (MigrationStart(m) \/ MigrationCopy(m) \/ MigrationSwitch(m)) /\ Whole /\ UNCHANGED History

\* The same, with every started thread scheduled: a worker that can take a step
\* takes it in the end
SpecLive == Init /\ [][Next]_vars /\ \A m \in 1 .. MaxMigrations : WF_vars(WorkerOf(m))

\* One operation at a time: a request is made only when no migration worker is
\* running, and records itself in `last`
NextSeq ==
    \/ \E n \in FileSizes, f \in FileIds :
          /\ Idle /\ Counted /\ allocate_file(n, f) /\ Whole
          /\ last' = Request("allocate", AllocateCode(n, f), f, n, NoSuchChunk, NoSuchDrive)
    \/ \E c \in ChunkIds : Idle /\ WriteChunk(c) /\ Whole /\ UNCHANGED History
    \/ \E c \in ChunkInputs, t \in DriveInputs :
          /\ Idle /\ Counted /\ migrate_chunk(c, t) /\ Whole
          /\ last' = Request("migrate", MigrateCode(c, t), "", 0, c, t)
    \/ \E m \in 1 .. MaxMigrations : MigrationStart(m) /\ Whole /\ UNCHANGED History
    \/ \E m \in 1 .. MaxMigrations : MigrationCopy(m) /\ Whole /\ UNCHANGED History
    \/ \E m \in 1 .. MaxMigrations : MigrationSwitch(m) /\ Whole /\ UNCHANGED History
    \/ \E f \in FileIds :
          /\ Idle /\ Counted /\ delete_file(f) /\ Whole
          /\ last' = Request("delete", DeleteCode(f), f, 0, NoSuchChunk, NoSuchDrive)

SpecSeq == Init /\ [][NextSeq]_vars

(***************************************************************************)
(* The handlers and the worker step by step. The endpoints are plain `def` *)
(* functions, which the framework runs on a pool of threads, and every     *)
(* migration has a thread of its own; no lock is taken anywhere. A thread  *)
(* may be suspended between any two statements, and inside                 *)
(* `x.free_space -= n`, which reads the attribute, subtracts and stores.   *)
(***************************************************************************)

\* the counter updates, by the position of the thread that makes them: the field,
\* the sign the chunk's size is added with, and the position after the update
Update ==
    [alloc_free |-> [field |-> "free_space", sign |-> -1, then |-> "alloc_used"],
     alloc_used |-> [field |-> "used_space", sign |-> 1, then |-> "alloc_loop"],
     src_free |-> [field |-> "free_space", sign |-> 1, then |-> "src_used"],
     src_used |-> [field |-> "used_space", sign |-> -1, then |-> "tgt_free"],
     tgt_free |-> [field |-> "free_space", sign |-> -1, then |-> "tgt_used"],
     tgt_used |-> [field |-> "used_space", sign |-> 1, then |-> "remove"],
     del_free |-> [field |-> "free_space", sign |-> 1, then |-> "del_used"],
     del_used |-> [field |-> "used_space", sign |-> -1, then |-> "del_record"]]

\* x.field -= n, first half: the attribute is read
LoadCounter(x, drive_id) ==
    [x EXCEPT !.tmp = drives[drive_id][Update[x.pc].field], !.loaded = TRUE]

\* x.field -= n, second half: the value read, changed by the size, is stored
StoreCounter(dr, x, drive_id, size) ==
    [dr EXCEPT ![drive_id][Update[x.pc].field] = x.tmp + Update[x.pc].sign * size]

\* the same update applied to the counter as it is
BookCounter(x, drive_id, size) ==
    [ledger EXCEPT ![drive_id][Update[x.pc].field] = @ + Update[x.pc].sign * size]

\* a request is served by a thread of the pool that is free (the first one)
FreeHandler(t) ==
    threads[t].pc = "idle" /\ \A u \in Handlers : u < t => threads[u].pc # "idle"

\* one more request is made, of the MaxCalls followed statement by statement
Called == requests < MaxCalls /\ requests' = requests + 1

\* allocate_file is entered: remaining_size = file_size, chunk_number = 0, chunks = []
allocate_begin(t, file_size, file_id) ==
    /\ FreeHandler(t)
    /\ threads' = [threads EXCEPT ![t] =
                     [pc |-> "alloc_loop", op |-> "allocate", file_id |-> file_id,
                      file_size |-> file_size, remaining_size |-> file_size,
                      chunk_number |-> 0, placed |-> <<>>, drive_id |-> NoDrive,
                      size |-> 0, loaded |-> FALSE, tmp |-> 0]]
    /\ UNCHANGED <<driveOrder, drives, chunks, heap, migrations, file_allocations, fs,
                   written, disk, ledger>>

\* allocate_file, one pass of the loop up to line 324: the loop ends and the
\* allocation is stored and saved, or no drive is found and 507 is raised, or the
\* chunk is recorded (the locals of lines 329-330 are the thread's own)
allocate_pass(t) ==
    /\ threads[t].pc = "alloc_loop"
    /\ LET x == threads[t]
           chunk_size == Min(ChunkSize, x.remaining_size)
           drive_id == find_best_drive_for_chunk(driveOrder, drives, chunks, heap, chunk_size)
           r == AllocStep([drives |-> drives, chunks |-> chunks, heap |-> heap,
                           placed |-> x.placed, remaining_size |-> x.remaining_size,
                           chunk_number |-> x.chunk_number, ok |-> TRUE],
                          x.file_id, drive_id, chunk_size)
       IN IF x.remaining_size <= 0
          THEN /\ file_allocations' =
                     Put(file_allocations, x.file_id,
                         [file_id |-> x.file_id, file_size |-> x.file_size,
                          chunks |-> x.placed, status |-> "allocated"])
               /\ disk' = save_metadata(drives, chunks, heap, migrations)
               /\ threads' = [threads EXCEPT ![t] = IdleThread]
               /\ UNCHANGED <<chunks, heap>>
          ELSE IF drive_id = NoDrive
          THEN /\ threads' = [threads EXCEPT ![t] = IdleThread]
               /\ UNCHANGED <<chunks, heap, file_allocations, disk>>
          ELSE /\ chunks' = r.chunks
               /\ heap' = r.heap
               /\ threads' = [threads EXCEPT ![t] =
                                [x EXCEPT !.pc = "alloc_free", !.placed = r.placed,
                                          !.remaining_size = r.remaining_size,
                                          !.chunk_number = r.chunk_number,
                                          !.drive_id = drive_id, !.size = chunk_size]]
               /\ UNCHANGED <<file_allocations, disk>>
    /\ UNCHANGED <<driveOrder, drives, migrations, fs, written, ledger>>

\* a handler reads the counter it is about to change (lines 326, 327, 597, 598)
handler_load(t) ==
    /\ threads[t].pc \in DOMAIN Update
    /\ ~threads[t].loaded
    /\ threads' = [threads EXCEPT ![t] = LoadCounter(threads[t], threads[t].drive_id)]
    /\ UNCHANGED <<driveOrder, drives, chunks, heap, migrations, file_allocations, fs,
                   written, disk, ledger>>

\* and stores the changed value
handler_store(t) ==
    /\ threads[t].pc \in DOMAIN Update
    /\ threads[t].loaded
    /\ drives' = StoreCounter(drives, threads[t], threads[t].drive_id, threads[t].size)
    /\ ledger' = BookCounter(threads[t], threads[t].drive_id, threads[t].size)
    /\ threads' = [threads EXCEPT ![t].pc = Update[threads[t].pc].then,
                                  ![t].loaded = FALSE]
    /\ UNCHANGED <<driveOrder, chunks, heap, migrations, file_allocations, fs, written,
                   disk>>

\* delete_file is entered: 404, or allocation = file_allocations[file_id]
delete_begin(t, file_id) ==
    /\ FreeHandler(t)
    /\ threads' =
          IF file_id \notin DOMAIN file_allocations THEN threads
          ELSE [threads EXCEPT ![t] =
                  [pc |-> "del_loop", op |-> "delete", file_id |-> file_id,
                   refs |-> file_allocations[file_id].chunks, i |-> 1,
                   drive_id |-> NoDrive, size |-> 0, loaded |-> FALSE, tmp |-> 0]]
    /\ UNCHANGED <<driveOrder, drives, chunks, heap, migrations, file_allocations, fs,
                   written, disk, ledger>>

\* delete_file, one pass of the loop up to line 596: the loop ends, the allocation
\* is removed (a KeyError when another delete has removed it) and the metadata
\* saved; or the entry has no chunk record; or the chunk's file is removed and its
\* drive fetched
delete_pass(t) ==
    /\ threads[t].pc = "del_loop"
    /\ LET x == threads[t]
       IN IF x.i > Len(x.refs)
          THEN /\ file_allocations' = Del(file_allocations, x.file_id)
               /\ disk' = IF x.file_id \in DOMAIN file_allocations
                          THEN save_metadata(drives, chunks, heap, migrations) ELSE disk
               /\ threads' = [threads EXCEPT ![t] = IdleThread]
               /\ fs' = fs
          ELSE IF x.refs[x.i].id \notin DOMAIN chunks
          THEN /\ threads' = [threads EXCEPT ![t].i = @ + 1]
               /\ UNCHANGED <<file_allocations, disk, fs>>
          ELSE LET chunk == heap[chunks[x.refs[x.i].id]]
               IN /\ fs' = IF Exists(fs, chunk.path)
                           THEN [fs EXCEPT ![chunk.path] = Absent] ELSE fs
                  /\ threads' = [threads EXCEPT ![t].pc = "del_free",
                                                ![t].drive_id = chunk.drive_id,
                                                ![t].size = chunk.size]
                  /\ UNCHANGED <<file_allocations, disk>>
    /\ UNCHANGED <<driveOrder, drives, chunks, heap, migrations, written, ledger>>

\* delete_file, line 601: del storage_manager.chunks[chunk_id], a KeyError (and the
\* end of the request) when another delete has removed the record
delete_record(t) ==
    /\ threads[t].pc = "del_record"
    /\ LET chunk_id == threads[t].refs[threads[t].i].id
       IN IF chunk_id \in DOMAIN chunks
          THEN /\ chunks' = Del(chunks, chunk_id)
               /\ threads' = [threads EXCEPT ![t].pc = "del_loop", ![t].i = @ + 1]
          ELSE /\ chunks' = chunks
               /\ threads' = [threads EXCEPT ![t] = IdleThread]
    /\ UNCHANGED <<driveOrder, drives, heap, migrations, file_allocations, fs, written,
                   disk, ledger>>

\* _perform_migration, lines 413-414, after a copy that returned 0
switch_chunk(m) ==
    /\ m \in DOMAIN migrations
    /\ migrations[m].pc = "switch"
    /\ heap' = SwitchChunk(heap, m)
    /\ migrations' = [migrations EXCEPT ![m].pc = "src_free"]
    /\ UNCHANGED <<driveOrder, drives, chunks, file_allocations, fs, written, disk,
                   threads, ledger>>

\* the drive whose counter the worker is at: lines 417-418 the source, 419-420 the target
WorkerDrive(m) ==
    IF migrations[m].pc \in {"src_free", "src_used"}
    THEN migrations[m].source_drive ELSE migrations[m].target_drive

\* the worker reads the counter it is about to change (lines 417-420)
worker_load(m) ==
    /\ m \in DOMAIN migrations
    /\ migrations[m].pc \in DOMAIN Update
    /\ ~migrations[m].loaded
    /\ migrations' = [migrations EXCEPT ![m] = LoadCounter(migrations[m], WorkerDrive(m))]
    /\ UNCHANGED <<driveOrder, drives, chunks, heap, file_allocations, fs, written, disk,
                   threads, ledger>>

\* and stores the changed value
worker_store(m) ==
    /\ m \in DOMAIN migrations
    /\ migrations[m].pc \in DOMAIN Update
    /\ migrations[m].loaded
    /\ drives' = StoreCounter(drives, migrations[m], WorkerDrive(m),
                              heap[migrations[m].chunk].size)
    /\ ledger' = BookCounter(migrations[m], WorkerDrive(m), heap[migrations[m].chunk].size)
    /\ migrations' = [migrations EXCEPT ![m].pc = Update[migrations[m].pc].then,
                                        ![m].loaded = FALSE]
    /\ UNCHANGED <<driveOrder, chunks, heap, file_allocations, fs, written, disk, threads>>

\* _perform_migration, lines 423-440: os.remove(chunk.path), the task is marked
\* completed (failed when os.remove raises) and the metadata is saved
worker_remove(m) ==
    /\ m \in DOMAIN migrations
    /\ migrations[m].pc = "remove"
    /\ LET gone == RemovedPath(heap, m)
       IN IF Exists(fs, gone)
          THEN /\ fs' = [fs EXCEPT ![gone] = Absent]
               /\ migrations' = [migrations EXCEPT ![m].status = "completed",
                                                   ![m].progress = 100,
                                                   ![m].pc = "done"]
          ELSE /\ fs' = fs
               /\ migrations' = MarkFailed(m, "remove failed")
    /\ disk' = save_metadata(drives, chunks, heap, migrations')
    /\ UNCHANGED <<driveOrder, drives, chunks, heap, file_allocations, written, threads,
                   ledger>>

\* Two request handlers and the migration workers, statement by statement
NextThreads ==
    \/ \E t \in Handlers, n \in FileSizes, f \in FileIds :
          Called /\ allocate_begin(t, n, f) /\ UNCHANGED <<env, last>>
    \/ \E t \in Handlers : allocate_pass(t) /\ UNCHANGED <<env, History>>
    \/ \E t \in Handlers : handler_load(t) /\ UNCHANGED <<env, History>>
    \/ \E t \in Handlers : handler_store(t) /\ UNCHANGED <<env, History>>
    \/ \E t \in Handlers, f \in FileIds : Called /\ delete_begin(t, f) /\ UNCHANGED <<env, last>>
    \/ \E t \in Handlers : delete_pass(t) /\ UNCHANGED <<env, History>>
    \/ \E t \in Handlers : delete_record(t) /\ UNCHANGED <<env, History>>
    \/ \E c \in ChunkIds : WriteChunk(c) /\ Whole /\ UNCHANGED History
    \/ \E c \in ChunkInputs, t \in DriveInputs :
          Called /\ migrate_chunk(c, t) /\ Whole /\ UNCHANGED last
    \/ \E m \in 1 .. MaxMigrations : MigrationStart(m) /\ Whole /\ UNCHANGED History
    \/ \E m \in 1 .. MaxMigrations : MigrationCopy(m) /\ Whole /\ UNCHANGED History
    \/ \E m \in 1 .. MaxMigrations : switch_chunk(m) /\ UNCHANGED <<env, History>>
    \/ \E m \in 1 .. MaxMigrations : worker_load(m) /\ UNCHANGED <<env, History>>
    \/ \E m \in 1 .. MaxMigrations : worker_store(m) /\ UNCHANGED <<env, History>>
    \/ \E m \in 1 .. MaxMigrations : worker_remove(m) /\ UNCHANGED <<env, History>>

SpecThreads == Init /\ [][NextThreads]_vars

(***************************************************************************)
(* Placement. The registry holds the drives in the order their mounts were *)
(* first seen by a scan (or loaded), which need not be the order of their  *)
(* ids: a drive mounted later is registered later. Sizes here are in GB.   *)
(***************************************************************************)

\* CHUNK_SIZE of the service in the placement examples: 4 GB
PlaceChunkSize == 4
PlaceSizes == {PlaceChunkSize, 2 * PlaceChunkSize}

\* what a scan may have measured on a writable drive: A (10 GB free of 100 GB),
\* B (5 GB free of 50 GB), and a drive with 10 GB free of 50 GB
DriveA == DriveInfo(100, 10, 90, "active")
DriveB == DriveInfo(50, 5, 45, "active")
Measured == {DriveA, DriveB, DriveInfo(50, 10, 40, "active")}

\* the orders a set of keys can have in a dict
Orders(S) ==
    {o \in [1 .. Cardinality(S) -> S] : \A i, j \in 1 .. Cardinality(S) : o[i] = o[j] => i = j}

InitPlace ==
    /\ driveOrder \in Orders(DriveIds)
    /\ \E a, b \in Measured :
          drives = [d \in DriveIds |->
                      CASE d = "hdd1" -> a
                        [] d = "hdd2" -> b
                        [] OTHER -> DriveInfo(4, 4, 0, "readonly")]
    /\ chunks = EmptyDict
    /\ heap = <<>>
    /\ migrations = <<>>
    /\ file_allocations = EmptyDict
    /\ fs = [p \in DriveIds \X ChunkIds |-> Absent]
    /\ written = {}
    /\ env = Host
    /\ disk = save_metadata(drives, chunks, heap, migrations)
    /\ threads = [t \in Handlers |-> IdleThread]
    /\ ledger = Counters(drives)
    /\ last = [op |-> "none", code |-> 0]
    /\ requests = 0

NextPlace ==
    \E n \in PlaceSizes, f \in FileIds :
       /\ Counted /\ allocate_file_at(PlaceChunkSize, n, f) /\ Whole
       /\ last' = Request("allocate", AllocateCodeAt(PlaceChunkSize, n, f), f, n,
                          NoSuchChunk, NoSuchDrive)

SpecPlace == InitPlace /\ [][NextPlace]_vars

(***************************************************************************)
(* Stop and restart. The process may stop at any point (it is killed, or   *)
(* the host loses power); every thread ends with it. A new process builds  *)
(* a StorageManager, whose __init__ calls load_metadata.                   *)
(***************************************************************************)

\* Readable with a slip: each file is loaded in a try block of its own
Readable_EachFile(dsk) ==
    [drives |-> "drives" \notin dsk.torn,
     chunks |-> "chunks" \notin dsk.torn,
     migrations |-> "migrations" \notin dsk.torn]

\* the files load_metadata gets to read: it reads drives.json, chunks.json and
\* migrations.json in this order inside one try block (lines 106-138), so the first
\* file that json.load cannot parse ends the load, and that collection and the ones
\* after it stay empty
Readable(dsk) ==
    [drives |-> "drives" \notin dsk.torn,
     chunks |-> {"drives", "chunks"} \cap dsk.torn = {},
     migrations |-> dsk.torn = {}]

\* the object loaded for a saved chunk stands where the saved object was: no
\* thread of the old process is left to tell them apart
LoadedHeapFrom(dsk, hp) ==
    [o \in DOMAIN hp |->
       IF Readable(dsk).chunks /\ \E c \in DOMAIN dsk.chunks : dsk.chunks[c].ref = o
       THEN dsk.chunks[CHOOSE c \in DOMAIN dsk.chunks : dsk.chunks[c].ref = o].rec
       ELSE hp[o]]
LoadedHeap == LoadedHeapFrom(disk, heap)

\* __init__ of a new process over the files dsk: the collections start empty, and
\* load_metadata fills drives, chunks and migrations from the files it can read, in
\* the order the keys were saved in; self.file_allocations stays empty and no
\* thread is started for a loaded task
LoadFrom(dsk, hp) ==
    /\ drives' = IF Readable(dsk).drives THEN dsk.drives ELSE EmptyDict
    /\ driveOrder' = IF Readable(dsk).drives
                     THEN SelectSeq(driveOrder, LAMBDA d : d \in DOMAIN dsk.drives)
                     ELSE <<>>
    /\ chunks' = IF Readable(dsk).chunks
                 THEN [c \in DOMAIN dsk.chunks |-> dsk.chunks[c].ref] ELSE EmptyDict
    /\ heap' = LoadedHeapFrom(dsk, hp)
    /\ migrations' = IF Readable(dsk).migrations
                     THEN [m \in DOMAIN dsk.migrations |->
                             [dsk.migrations[m] EXCEPT !.pc = "none", !.chunk = 0,
                                                       !.loaded = FALSE, !.tmp = 0]]
                     ELSE <<>>
    /\ file_allocations' = EmptyDict
    /\ threads' = [t \in DOMAIN threads |-> IF t \in Handlers THEN IdleThread ELSE threads[t]]
    /\ ledger' = Counters(drives')
    /\ UNCHANGED <<fs, written, env>>

\* load_metadata in a process started over the files as they are
load_metadata == LoadFrom(disk, heap) /\ UNCHANGED disk

NextRestart ==
    \/ Next
    \/ load_metadata /\ UNCHANGED History

SpecRestart == Init /\ [][NextRestart]_vars

\* the files in the order save_metadata writes them
SavedFiles == <<"drives", "chunks", "migrations">>

\* The files when the process stops while save_metadata writes the k-th of them:
\* open(path, "w") has cut the file to length 0 and json.dump has written none or a
\* part of the text. The files before it are written, the ones after it not yet.
StoppedIn(old, new, k) ==
    [drives |-> IF k > 1 THEN new.drives ELSE old.drives,
     chunks |-> IF k > 2 THEN new.chunks ELSE old.chunks,
     migrations |-> old.migrations,
     torn |-> {SavedFiles[k]} \cup {SavedFiles[j] : j \in {i \in k + 1 .. 3 : SavedFiles[i] \in old.torn}}]

\* POST /allocate in a process that stops while the save at the end of allocate_file
\* (line 336) writes its k-th file, and is started again
allocate_stopped(file_size, file_id, k) ==
    LET r == AllocRun(file_size, file_id)
        left == StoppedIn(disk, MetadataFiles(r.drives, r.chunks, r.heap, migrations), k)
    IN /\ r.ok
       /\ env.writable
       /\ disk' = left
       /\ LoadFrom(left, r.heap)

\* Requests, writes and worker steps, with the process stopped and started again,
\* between two steps or in the middle of a save
NextCrash ==
    \/ Next
    \/ load_metadata /\ UNCHANGED History
    \/ \E n \in FileSizes, f \in FileIds, k \in 1 .. 3 :
          Counted /\ allocate_stopped(n, f, k) /\ UNCHANGED last

SpecCrash == Init /\ [][NextCrash]_vars

(***************************************************************************)
(* Scanning. scan_drives looks at /mnt/hdd1 .. /mnt/hdd{max_drives}: a     *)
(* mount path that exists is measured and probed, and its record is put in *)
(* self.drives. It is called by POST /drives/scan and, every minute, by    *)
(* the scanner thread that __init__ starts. A drive may be mounted while   *)
(* the service runs, and may be taken away with the files on it.           *)
(***************************************************************************)

\* the filesystems behind the mount paths: their size, the bytes other things than
\* chunks take on them, and whether the service may write there (os.access W_OK)
Volume ==
    [d \in DriveIds |->
       CASE d = "hdd1" -> [total |-> 2, other |-> 0, writable |-> TRUE]
         [] d = "hdd2" -> [total |-> 4, other |-> 2, writable |-> TRUE]
         [] OTHER -> [total |-> 4, other |-> 0, writable |-> FALSE]]

\* the bytes a chunk file takes: all of the chunk, or half of it when the copy broke off
FileBytes(file, hp) ==
    CASE file.state = "full" -> hp[file.of].size
      [] file.state = "partial" -> hp[file.of].size \div 2
      [] OTHER -> 0

RECURSIVE SumBytes(_, _, _)
SumBytes(files, hp, paths) ==
    IF paths = {} THEN 0
    ELSE LET p == CHOOSE q \in paths : TRUE
         IN FileBytes(files[p], hp) + SumBytes(files, hp, paths \ {p})

\* shutil.disk_usage(mount_path): total, used and free of the filesystem
disk_usage(d, files, hp) ==
    LET used == Volume[d].other + SumBytes(files, hp, {d} \X ChunkIds)
    IN [total |-> Volume[d].total, used |-> used, free |-> Volume[d].total - used]

\* what happens while one mount is scanned: all goes well, the health probe raises
\* (smartctl or findmnt cannot be run), or measuring the mount raises
ScanOutcomes == {"healthy", "probe raises", "usage raises"}

\* check_drive_health with a slip: the exception of the probe is not caught, and
\* ends the scan of this drive
check_drive_health_Uncaught(outcome) ==
    IF outcome = "probe raises" THEN "raised" ELSE "healthy"

\* check_drive_health: an exception of the probe is caught, and the health is unknown
check_drive_health(outcome) ==
    IF outcome = "probe raises" THEN "unknown" ELSE "healthy"

\* the body of the loop for hdd{i} with a slip: the measured usage is added to the
\* recorded one
ScanDrive_Added(st, d, files, hp, mounted, outcome) ==
    IF d \notin mounted \/ outcome = "usage raises" THEN st
    ELSE LET usage == disk_usage(d, files, hp)
             health == check_drive_health(outcome)
             before == IF d \in DOMAIN st.drives THEN st.drives[d].used_space ELSE 0
             drive_info == [DriveInfo(usage.total, usage.free, before + usage.used,
                                      IF Volume[d].writable THEN "active" ELSE "readonly")
                              EXCEPT !.health = health]
         IN [order |-> IF d \in DOMAIN st.drives THEN st.order ELSE Append(st.order, d),
             drives |-> Put(st.drives, d, drive_info)]

\* the body of the loop for hdd{i} with a slip: the record of a drive whose mount
\* path is gone is dropped
ScanDrive_Dropped(st, d, files, hp, mounted, outcome) ==
    IF d \notin mounted
    THEN [order |-> SelectSeq(st.order, LAMBDA x : x # d), drives |-> Del(st.drives, d)]
    ELSE IF outcome = "usage raises" THEN st
    ELSE LET usage == disk_usage(d, files, hp)
             health == check_drive_health(outcome)
             drive_info == [DriveInfo(usage.total, usage.free, usage.used,
                                      IF Volume[d].writable THEN "active" ELSE "readonly")
                              EXCEPT !.health = health]
         IN [order |-> IF d \in DOMAIN st.drives THEN st.order ELSE Append(st.order, d),
             drives |-> Put(st.drives, d, drive_info)]

\* the body of the loop for hdd{i}: a mount path that does not exist is passed over;
\* one that exists is measured and probed and its record put in self.drives, and an
\* exception on the way (of the measurement, or one the probe let through) is logged
\* and leaves the record as it was
ScanDrive(st, d, files, hp, mounted, outcome) ==
    IF d \notin mounted \/ outcome = "usage raises" THEN st
    ELSE LET usage == disk_usage(d, files, hp)
             health == check_drive_health(outcome)
             drive_info == [DriveInfo(usage.total, usage.free, usage.used,
                                      IF Volume[d].writable THEN "active" ELSE "readonly")
                              EXCEPT !.health = health]
         IN IF health = "raised" THEN st
            ELSE [order |-> IF d \in DOMAIN st.drives THEN st.order
                            ELSE Append(st.order, d),
                  drives |-> Put(st.drives, d, drive_info)]

\* f"hdd{i}" for i in range(1, self.max_drives + 1)
ScanOrder == <<"hdd1", "hdd2", "hdd3">>

RECURSIVE ScanLoop(_, _, _, _, _, _)
ScanLoop(st, i, files, hp, mounted, out) ==
    IF i > Len(ScanOrder) THEN st
    ELSE ScanLoop(ScanDrive(st, ScanOrder[i], files, hp, mounted, out[ScanOrder[i]]),
                  i + 1, files, hp, mounted, out)

\* the registry after a scan of the host as it is, with outcomes `out`
ScanRun(out) ==
    ScanLoop([order |-> driveOrder, drives |-> drives], 1, fs, heap, env.mounted, out)

\* scan_drives: the loop, then save_metadata
scan_drives(out) ==
    LET r == ScanRun(out)
    IN /\ driveOrder' = r.order
       /\ drives' = r.drives
       /\ disk' = save_metadata(r.drives, chunks, heap, migrations)
       /\ UNCHANGED <<chunks, heap, migrations, file_allocations, fs, written>>

\* the scanner thread, among the threads
Scanner == 0

\* where the scanner thread goes after an exception with a slip: the loop is left
ScannerAfter_Left(raised) == IF raised THEN "dead" ELSE "sleep"

\* where the scanner thread goes after scan_drives: time.sleep(60), in the try block
\* when the scan returned and in the except block when it raised
ScannerAfter(raised) == "sleep"

\* background_scanner, one pass of `while True`: the scan, which may raise when it
\* returns (list(self.drives.values()) while another scan inserts a drive)
background_scan(out, raised) ==
    /\ threads[Scanner].pc = "scan"
    /\ scan_drives(out)
    /\ threads' = [threads EXCEPT ![Scanner] =
                     [pc |-> ScannerAfter(raised), raised |-> @.raised \/ raised]]

\* background_scanner: time.sleep(60) returns, and the loop starts again
background_sleep ==
    /\ threads[Scanner].pc = "sleep"
    /\ threads' = [threads EXCEPT ![Scanner].pc = "scan"]
    /\ UNCHANGED <<driveOrder, drives, chunks, heap, migrations, file_allocations, fs,
                   written, disk>>

\* a drive is mounted at a mount path that did not exist
mount(d) ==
    /\ d \notin env.mounted \cup env.removed
    /\ env' = [env EXCEPT !.mounted = @ \cup {d}]
    /\ UNCHANGED <<driveOrder, drives, chunks, heap, migrations, file_allocations, fs,
                   written, disk>>

\* a drive is taken away, its mount path and the files on it with it (one drive
\* at most, of those the model follows)
unmount(d) ==
    /\ d \in env.mounted
    /\ env.removed = {}
    /\ env' = [env EXCEPT !.mounted = @ \ {d}, !.removed = @ \cup {d}]
    /\ fs' = [p \in DOMAIN fs |-> IF p[1] = d THEN Absent ELSE fs[p]]
    /\ UNCHANGED <<driveOrder, drives, chunks, heap, migrations, file_allocations,
                   written, disk>>

\* the metadata directory stops being writable (a read-only remount, a full volume)
metadata_readonly ==
    /\ env.writable
    /\ env' = [env EXCEPT !.writable = FALSE]
    /\ UNCHANGED <<driveOrder, drives, chunks, heap, migrations, file_allocations, fs,
                   written, disk>>

\* a scan replaces the counters: the history of updates starts again from them
Rescanned == ledger' = Counters(drives')

\* the record of a scan: the mount paths it found and the outcomes it met
ScanRequest(out) == [op |-> "scan", code |-> 200, mounted |-> env.mounted, out |-> out]

\* the outcomes of one scan: at most one of the mounts gives trouble
ScanInputs ==
    {out \in [DriveIds -> ScanOutcomes] :
       \A a, b \in DriveIds : out[a] # "healthy" /\ out[b] # "healthy" => a = b}

\* the scan meets the outcomes `out` on the host: one more scan with trouble, of the
\* MaxFaults the model follows, or one without
Met(out) ==
    IF \E d \in env.mounted : out[d] # "healthy"
    THEN env.faults < MaxFaults /\ env' = [env EXCEPT !.faults = @ + 1]
    ELSE (\A d \in DriveIds : out[d] = "healthy") /\ UNCHANGED env

\* every registered drive that takes chunks is there: the mount path a request
\* makes directories under exists
Present == \A d \in DOMAIN drives : drives[d].status = "active" => d \in env.mounted

\* the caller's write of chunk c finds the drive and the room on it
Writable(c) ==
    /\ c \in DOMAIN chunks
    /\ heap[chunks[c]].drive_id \in env.mounted
    /\ disk_usage(heap[chunks[c]].drive_id, fs, heap).free >= heap[chunks[c]].size

\* The service from its construction, before the first scan: nothing is registered.
\* Two of the drives are mounted.
InitScan ==
    /\ driveOrder = <<>>
    /\ drives = EmptyDict
    /\ chunks = EmptyDict
    /\ heap = <<>>
    /\ migrations = <<>>
    /\ file_allocations = EmptyDict
    /\ fs = [p \in DriveIds \X ChunkIds |-> Absent]
    /\ written = {}
    /\ env = [Host EXCEPT !.mounted = {"hdd1", "hdd2"}]
    /\ disk = save_metadata(drives, chunks, heap, migrations)
    /\ threads = [t \in Handlers \cup {Scanner} |->
                    IF t = Scanner THEN [pc |-> "scan", raised |-> FALSE] ELSE IdleThread]
    /\ ledger = Counters(drives)
    /\ last = [op |-> "none", code |-> 0]
    /\ requests = 0

\* the record of a request, without the collections it found
Brief(op, code) == [op |-> op, code |-> code]

\* a scan, of the scanner thread or of POST /drives/scan
ScanStep(out) ==
    /\ Met(out) /\ scan_drives(out) /\ Rescanned
    /\ last' = ScanRequest(out) /\ UNCHANGED <<threads, requests>>

\* Scans (of the scanner thread or of POST /drives/scan), requests (one at a time,
\* each as a whole) and the caller's writes, on a host whose drives come and go
NextScan ==
    \/ \E out \in ScanInputs : ScanStep(out)
    \/ \E n \in FileSizes, f \in FileIds :
          /\ Present /\ Called /\ allocate_file(n, f) /\ Whole
          /\ last' = Brief("allocate", AllocateCode(n, f))
    \/ \E c \in ChunkIds : Writable(c) /\ WriteChunk(c) /\ Whole /\ UNCHANGED History
    \/ \E f \in FileIds :
          /\ Called /\ delete_file(f) /\ Whole
          /\ last' = Brief("delete", DeleteCode(f))
    \/ \E d \in DriveIds : mount(d) /\ UNCHANGED <<threads, ledger, History>>
    \/ \E d \in DriveIds : unmount(d) /\ UNCHANGED <<threads, ledger, History>>

SpecScan == InitScan /\ [][NextScan]_vars

\* The scanner thread on a host whose drives come and go
NextScanner ==
    \/ \E out \in ScanInputs, raised \in BOOLEAN :
          /\ Met(out) /\ background_scan(out, raised) /\ Rescanned
          /\ last' = ScanRequest(out) /\ UNCHANGED requests
    \/ background_sleep /\ UNCHANGED <<ledger, env, History>>
    \/ \E d \in DriveIds : mount(d) /\ UNCHANGED <<threads, ledger, History>>
    \/ \E d \in DriveIds : unmount(d) /\ UNCHANGED <<threads, ledger, History>>

\* the steps of the scanner thread
ScannerSteps ==
    \/ \E out \in ScanInputs, raised \in BOOLEAN :
          /\ Met(out) /\ background_scan(out, raised) /\ Rescanned
          /\ last' = ScanRequest(out) /\ UNCHANGED requests
    \/ background_sleep /\ UNCHANGED <<ledger, env, History>>

\* the thread is scheduled: when it can take a step, it takes one in the end
SpecScanner == InitScan /\ [][NextScanner]_vars /\ WF_vars(ScannerSteps)

\* One operation at a time, on a host whose metadata directory may stop being
\* writable
NextUnsaved ==
    \/ NextSeq
    \/ metadata_readonly /\ UNCHANGED <<threads, ledger, History>>

SpecUnsaved == Init /\ [][NextUnsaved]_vars

(***************************************************************************)
(* The backend's proxy. POST /api/v1/storage/allocate of the backend       *)
(* (src/backend/app/api/v1/endpoints/storage.py) hands its two query       *)
(* parameters to StorageClient.allocate_file (src/backend/app/core/        *)
(* storage_client.py), which posts to the storage service's /allocate.     *)
(***************************************************************************)

\* StorageClient.allocate_file: the request it sends to {storage_url}/allocate
\* carries the two values as its JSON body (json=...), and no query string
client_request(file_size, file_id) ==
    [query |-> EmptyDict, json |-> [file_size |-> file_size, file_id |-> file_id]]

\* POST /allocate of the storage service is `def allocate_file(file_size: int,
\* file_id: str)`: the framework takes parameters of these types from the query
\* string, and both are required
Bound(req) == {"file_size", "file_id"} \subseteq DOMAIN req.query

\* the status of POST /allocate for a request: 422 from the framework when a
\* parameter is missing, else the status of allocate_file
ServiceCode(req) ==
    IF Bound(req) THEN AllocateCode(req.query.file_size, req.query.file_id) ELSE 422

\* POST /allocate of the storage service: a request whose parameters are missing
\* never reaches allocate_file
service_allocate(req) ==
    IF Bound(req) THEN allocate_file(req.query.file_size, req.query.file_id)
    ELSE UNCHANGED <<driveOrder, drives, chunks, heap, migrations, file_allocations, fs,
                     written, disk>>

\* the status of the backend's POST /api/v1/storage/allocate: raise_for_status raises
\* on a 4xx or 5xx answer, and allocate_storage turns every exception into a 500
ProxyCode(file_size, file_id) ==
    IF ServiceCode(client_request(file_size, file_id)) >= 400 THEN 500 ELSE 200

\* allocate_storage(file_size, file_id) of the backend
allocate_storage(file_size, file_id) == service_allocate(client_request(file_size, file_id))

\* the record of a request made through the backend, with whether the drives could
\* hold the file when it was made
ProxyRequest(file_size, file_id) ==
    [op |-> "proxy_allocate", code |-> ProxyCode(file_size, file_id), file_id |-> file_id,
     file_size |-> file_size, fits |-> AllocateCode(file_size, file_id) = 200]

\* One operation at a time, sent to the storage service or through the backend
NextProxy ==
    \/ NextSeq
    \/ \E n \in FileSizes, f \in FileIds :
          /\ Idle /\ Counted /\ allocate_storage(n, f) /\ Whole
          /\ last' = ProxyRequest(n, f)

SpecProxy == Init /\ [][NextProxy]_vars

\* the record of a delete request made while workers may be running: its number
\* among the requests, its response, and the collections it found
DeleteRequest(file_id) ==
    [op |-> "delete", code |-> DeleteCode(file_id), file_id |-> file_id, n |-> requests + 1,
     drives |-> drives, chunks |-> chunks, heap |-> heap, migrations |-> migrations]

\* Requests, caller's writes and worker steps in any interleaving, as in Next, with
\* every delete recorded
NextRace ==
    \/ \E n \in FileSizes, f \in FileIds : Counted /\ allocate_file(n, f) /\ Whole /\ UNCHANGED last
    \/ \E c \in ChunkIds : WriteChunk(c) /\ Whole /\ UNCHANGED History
    \/ \E c \in ChunkInputs, t \in DriveInputs :
          Counted /\ migrate_chunk(c, t) /\ Whole /\ UNCHANGED last
    \/ \E m \in 1 .. MaxMigrations : MigrationStart(m) /\ Whole /\ UNCHANGED History
    \/ \E m \in 1 .. MaxMigrations : MigrationCopy(m) /\ Whole /\ UNCHANGED History
    \/ \E m \in 1 .. MaxMigrations : MigrationSwitch(m) /\ Whole /\ UNCHANGED History
    \/ \E f \in FileIds : Counted /\ delete_file(f) /\ Whole /\ last' = DeleteRequest(f)

SpecRace == Init /\ [][NextRace]_vars

\* _perform_migration, lines 411-436, when os.remove raises although its file is
\* there (the volume turned read-only, the file may not be removed): the chunk
\* record and the drive counters were switched before the call, the file stays,
\* and the handler of the exception marks the task failed and nothing else
MigrationRemoveRaises(m) ==
    /\ m \in DOMAIN migrations
    /\ migrations[m].pc = "switch"
    /\ Exists(fs, RemovedPath(SwitchChunk(heap, m), m))
    /\ heap' = SwitchChunk(heap, m)
    /\ drives' = SwitchDrives(drives, m)
    /\ migrations' = MarkFailed(m, "remove raised")
    /\ disk' = save_metadata(drives', chunks, heap', migrations')
    /\ UNCHANGED <<driveOrder, chunks, file_allocations, fs, written>>

\* One operation at a time, on drives whose files may refuse to be removed
NextFault ==
    \/ NextSeq
    \/ \E m \in 1 .. MaxMigrations : MigrationRemoveRaises(m) /\ Whole /\ UNCHANGED History

SpecFault == Init /\ [][NextFault]_vars

(***************************************************************************)
(* Properties                                                              *)
(***************************************************************************)

RECURSIVE SumSizes(_)
SumSizes(refs) == IF refs = <<>> THEN 0 ELSE Head(refs).size + SumSizes(Tail(refs))

\* the sum of g[x] over the x in S
RECURSIVE SumOver(_, _)
SumOver(S, g) ==
    IF S = {} THEN 0 ELSE LET x == CHOOSE y \in S : TRUE IN g[x] + SumOver(S \ {x}, g)

\* a task that is queued or migrating
NonTerminal(m) == migrations[m].status \in {"queued", "migrating"}
InFlight(chunk_id) ==
    \E m \in DOMAIN migrations : migrations[m].chunk_id = chunk_id /\ NonTerminal(m)

\* the task the last request created, and the chunk object and drives it named
LastTask == migrations[Len(migrations)]
LastObj == last.chunks[last.chunk_id]
LastMigrated == last.op = "migrate" /\ last.code = 200

\* C1: when a task is marked completed, the chunk's bytes are at its new recorded
\* path, equal to the bytes the source path held, and the old source path is empty
C1_CompletedMovesBytes ==
    [][\A m \in DOMAIN migrations :
          (migrations[m].status # "completed" /\ migrations'[m].status = "completed")
          => LET o == migrations[m].chunk
             IN /\ heap'[o].path # heap[o].path
                /\ fs'[heap'[o].path] = fs[heap[o].path]
                /\ ~Exists(fs', heap[o].path)]_vars

\* C2: in every state of a migration task, the bytes of the chunk it moves, once
\* written and while the chunk is recorded, are on the task's source or target drive
C2_NeverMissingFromBoth ==
    \A m \in DOMAIN migrations :
       LET c == migrations[m].chunk_id
           o == migrations[m].chunk
       IN (o # 0 /\ c \in DOMAIN chunks /\ chunks[c] = o /\ o \in written)
          => \E d \in {migrations[m].source_drive, migrations[m].target_drive} :
                fs[PathOf(d, c)] = Full(o)

\* C3: at most one queued or migrating task per chunk id
C3_OneNonTerminalTask ==
    \A c \in ChunkIds :
       Cardinality({m \in DOMAIN migrations :
                      migrations[m].chunk_id = c /\ NonTerminal(m)}) <= 1

\* what makes a migrate request valid apart from the chunk being in migration
OtherwiseValid(chunk_id, target_drive) ==
    /\ chunk_id \in DOMAIN chunks
    /\ target_drive \in DOMAIN drives
    /\ heap[chunks[chunk_id]].drive_id # target_drive
    /\ drives[target_drive].free_space >= heap[chunks[chunk_id]].size

\* C4: a migrate call, otherwise valid, for a chunk that has a task in flight is
\* answered 400 and creates no task
C4_SecondMigrateRejected ==
    [][\A c \in ChunkIds, t \in DriveIds :
          (InFlight(c) /\ OtherwiseValid(c, t) /\ migrate_chunk(c, t))
          => (MigrateCode(c, t) = 400 /\ migrations' = migrations)]_vars

\* C5: after allocate answered 507 the chunk records and every drive's counters are
\* those from before the call
C5_FailedAllocateReleases ==
    (last.op = "allocate" /\ last.code = 507)
    => /\ drives = last.drives
       /\ DOMAIN chunks = DOMAIN last.chunks
       /\ \A c \in DOMAIN chunks : heap[chunks[c]] = last.heap[last.chunks[c]]

\* C6: a successful allocate returns chunks whose sizes sum to file_size; for
\* file_size 0 it returns no chunk and leaves the drives as they were
C6_SizesSumToFileSize ==
    (last.op = "allocate" /\ last.code = 200)
    => LET a == file_allocations[last.file_id]
       IN /\ a.file_size = last.file_size
          /\ SumSizes(a.chunks) = last.file_size
          /\ last.file_size = 0 => (a.chunks = <<>> /\ drives = last.drives
                                     /\ chunks = last.chunks)

C6_Witness ==
    /\ last.op = "allocate" /\ last.code = 200 /\ last.file_size = MaxFileSize
    /\ Len(file_allocations[last.file_id].chunks) >= 2

\* the free space of the drives an allocation may use
ActiveFree ==
    SumOver({d \in DOMAIN drives : drives[d].status = "active"},
            [d \in DOMAIN drives |-> drives[d].free_space])

\* C7: allocate answers 507 whenever the active drives' free space sums to less
\* than file_size
C7_FailsWhenSpaceShort ==
    \A n \in FileSizes, f \in FileIds : ActiveFree < n => AllocateCode(n, f) = 507

\* C8: after a migration from S to T that ran alone is completed, the chunk is on T,
\* S is credited and T debited by the chunk's size, and no other counter changed
C8_CompletedMigrationAccounts ==
    (LastMigrated /\ LastTask.status = "completed")
    => LET S == last.heap[LastObj].drive_id
           T == last.target_drive
           size == last.heap[LastObj].size
       IN /\ heap[LastObj].drive_id = T
          /\ drives = [d \in DOMAIN last.drives |->
                         IF d = S
                         THEN [last.drives[d] EXCEPT !.free_space = @ + size,
                                                     !.used_space = @ - size]
                         ELSE IF d = T
                         THEN [last.drives[d] EXCEPT !.free_space = @ - size,
                                                     !.used_space = @ + size]
                         ELSE last.drives[d]]

C8_Witness == LastMigrated /\ LastTask.status = "completed"

\* C9: a migration that ran alone and whose copy failed (source file missing, or
\* rsync returned non-zero) ends failed, with the chunk record and the drives as
\* before the request, and the same request is accepted again
C9_FailedCopyChangesNothing ==
    (LastMigrated /\ LastTask.error \in {"source not found", "rsync failed"})
    => /\ LastTask.status = "failed"
       /\ heap[LastObj] = last.heap[LastObj]
       /\ chunks = last.chunks
       /\ drives = last.drives
       /\ MigrateCode(last.chunk_id, last.target_drive) = 200

C9_Witness ==
    LastMigrated /\ LastTask.status = "failed" /\ LastTask.error = "rsync failed"

\* the chunk records of a file before the last request, and their size on a drive
FileChunksBefore(file_id) ==
    {c \in DOMAIN last.chunks : last.heap[last.chunks[c]].file_id = file_id}
SizeOnDriveBefore(file_id, d) ==
    SumOver({c \in FileChunksBefore(file_id) : last.heap[last.chunks[c]].drive_id = d},
            [c \in DOMAIN last.chunks |-> last.heap[last.chunks[c]].size])

\* C10: a successful DELETE leaves no chunk record of the file and no allocation,
\* and credits every drive by the size of the file's chunks that were on it
C10_DeleteFreesFile ==
    (last.op = "delete" /\ last.code = 200)
    => /\ \A c \in DOMAIN chunks : heap[chunks[c]].file_id # last.file_id
       /\ last.file_id \notin DOMAIN file_allocations
       /\ \A d \in DOMAIN drives :
             /\ drives[d].free_space
                  = last.drives[d].free_space + SizeOnDriveBefore(last.file_id, d)
             /\ drives[d].used_space
                  = last.drives[d].used_space - SizeOnDriveBefore(last.file_id, d)

\* no handler is inside a request and no migration worker is running
Quiet == Idle /\ \A t \in Handlers : threads[t].pc = "idle"

\* C11: no update of a space counter is lost: whenever the handlers and workers
\* have all finished, every drive's free_space and used_space are what the updates
\* made give when applied one after the other
C11_NoLostUpdate == Quiet => Counters(drives) = ledger

\* the chunks an allocate call reserves: ceil(file_size / chunk_size)
ChunksOf(file_size) == (file_size + ChunkSize - 1) \div ChunkSize

\* C12: while an allocate call is in progress, the chunk collection holds none of
\* the call's chunks or all of them
C12_AllocationAtomic ==
    \A t \in Handlers :
       (threads[t].pc # "idle" /\ threads[t].op = "allocate")
       => Len(threads[t].placed) \in {0, ChunksOf(threads[t].file_size)}

\* the last request was an allocate that found A registered as hdd1 and B as hdd2,
\* both active and holding no chunk
FoundAB ==
    /\ last.op = "allocate" /\ last.code = 200
    /\ last.drives["hdd1"] = DriveA /\ last.drives["hdd2"] = DriveB
    /\ last.chunks = EmptyDict

\* the drive the i-th chunk of the last allocation was placed on
PlacedOn(i) == file_allocations[last.file_id].chunks[i].drive_id

\* of the drives in S, the one registered first
FirstRegistered(S) ==
    driveOrder[CHOOSE i \in 1 .. Len(driveOrder) :
                 driveOrder[i] \in S /\ \A j \in 1 .. i - 1 : driveOrder[j] \notin S]

FoundAB8 == FoundAB /\ last.file_size = 2 * PlaceChunkSize

C15_TieBrokenByDriveId ==
    \A o \in Orders(DriveIds) :
       find_best_drive_for_chunk(o, drives, chunks, heap, PlaceChunkSize)
         = find_best_drive_for_chunk(driveOrder, drives, chunks, heap, PlaceChunkSize)

\* the last request was a migrate of a recorded chunk to the drive it is on
ToOwnDrive ==
    /\ last.op = "migrate"
    /\ last.chunk_id \in DOMAIN last.chunks
    /\ last.target_drive = last.heap[LastObj].drive_id

\* C16: migrate of an existing chunk to the drive it is on is answered 400 and
\* creates no task, also when that drive has less free space than the chunk's size
C16_SameDriveConflict == ToOwnDrive => (last.code = 400 /\ migrations = last.migrations)

C16_Witness ==
    ToOwnDrive /\ last.drives[last.target_drive].free_space < last.heap[LastObj].size

\* C17: after a migrate request that was rejected (404, 400 or 507) the drive,
\* chunk, migration and allocation collections are those from before the request,
\* no task was created and no worker runs
C17_RejectedMigrateChangesNothing ==
    (last.op = "migrate" /\ last.code # 200)
    => /\ last.code \in {404, 400, 507}
       /\ drives = last.drives
       /\ chunks = last.chunks
       /\ heap = last.heap
       /\ migrations = last.migrations
       /\ file_allocations = last.file_allocations
       /\ Idle

C17_Witness == last.op = "migrate" /\ last.code = 507

\* the steps a task's status may take
Forward ==
    {<<"queued", "migrating">>, <<"migrating", "completed">>, <<"migrating", "failed">>}

\* C18: a task is created queued, its status only moves queued -> migrating ->
\* completed or failed, and a completed or failed task keeps its status
C18_StatusMovesForward ==
    [][\A m \in DOMAIN migrations' :
          IF m \in DOMAIN migrations
          THEN \/ migrations'[m].status = migrations[m].status
               \/ <<migrations[m].status, migrations'[m].status>> \in Forward
          ELSE migrations'[m].status = "queued"]_vars

C18_Witness ==
    /\ \E m \in DOMAIN migrations : migrations[m].status = "completed"
    /\ \E m \in DOMAIN migrations : migrations[m].status = "failed"

\* C19: every task created by a successful migrate call reaches completed or
\* failed in the end, whatever interleaves with its worker
C19_EveryTaskTerminates ==
    \A m \in 1 .. MaxMigrations :
       (m \in DOMAIN migrations)
         ~> (m \in DOMAIN migrations /\ migrations[m].status \in {"completed", "failed"})

\* C20: after a stop and restart, a task loaded from the metadata (no thread works
\* on it) is completed or failed
C20_NoTaskStuckAfterRestart ==
    \A m \in DOMAIN migrations :
       migrations[m].pc = "none" => migrations[m].status \in {"completed", "failed"}

\* C23: a mutating operation whose metadata save fails does not report success:
\* whenever a request is answered 200, the persisted collections are the
\* collections as that request left them
C23_SuccessMeansSaved ==
    [][(requests' = requests + 1 /\ last'.code = 200) =>
          disk' = MetadataFiles(drives', chunks', heap', migrations')]_vars

\* C24: scanning is idempotent: with unchanged mounts, measurements and probe
\* results, a second scan leaves the drive collection as the first one left it
C24_ScanIdempotent ==
    [][\A out \in ScanInputs :
          ScanStep(out) =>
             ScanLoop([order |-> driveOrder', drives |-> drives'], 1, fs', heap',
                      env'.mounted, out) = [order |-> driveOrder', drives |-> drives']]_vars

\* a scan has replaced the counters of a drive that holds a chunk
C24_Witness ==
    /\ last.op = "scan"
    /\ \E c \in DOMAIN chunks : heap[chunks[c]].drive_id \in last.mounted

\* C25: no step removes a drive from the registry, and a scan that finds the mount
\* path of a registered drive gone leaves the drive's record exactly as it was
C25_DrivesOnlyGrow ==
    [][/\ DOMAIN drives \subseteq DOMAIN drives'
       /\ \A out \in ScanInputs :
             ScanStep(out) => \A d \in DOMAIN drives \ env.mounted : drives'[d] = drives[d]]_vars

\* a scan has run while the mount path of a registered drive was gone
C25_Witness ==
    /\ last.op = "scan"
    /\ \E d \in DOMAIN drives : d \notin last.mounted

\* the record a scan makes of a mount: the measured usage, the access and the health
Scanned(d, health) ==
    LET usage == disk_usage(d, fs, heap)
    IN [DriveInfo(usage.total, usage.free, usage.used,
                  IF Volume[d].writable THEN "active" ELSE "readonly")
          EXCEPT !.health = health]

\* C26: a failing health probe does not abort the scan: the drive is recorded, with
\* health unknown; and a failure while one mount is measured does not keep the
\* other mounts from being measured and recorded
C26_ScanSurvivesFailures ==
    [][\A out \in ScanInputs :
          ScanStep(out) =>
             \A d \in env.mounted :
                /\ out[d] = "probe raises" =>
                      d \in DOMAIN drives' /\ drives'[d] = Scanned(d, "unknown")
                /\ out[d] = "healthy" =>
                      d \in DOMAIN drives' /\ drives'[d] = Scanned(d, "healthy")]_vars

\* a scan has met a failing probe on one mount, or a failing measurement, and found
\* another mount as well
C26_Witness ==
    /\ last.op = "scan"
    /\ \E d \in last.mounted : last.out[d] # "healthy"
    /\ \E d \in last.mounted : last.out[d] = "healthy"

\* C27: on every drive free_space + used_space = total_space once the allocations,
\* migrations and deletes that were made have completed, as it was when the drive
\* was scanned
C27_CountersAddUp ==
    Quiet => \A d \in DOMAIN drives :
                drives[d].free_space + drives[d].used_space = drives[d].total_space

\* C28: the periodic scanner never stops: whatever is raised inside a scan, the
\* loop goes on, and scans are run again and again for ever
C28_ScannerNeverStops == []<>(threads[Scanner].pc = "sleep")

\* a scan of the scanner thread has raised, and the thread is about to scan again
C28_Witness == threads[Scanner].raised /\ threads[Scanner].pc = "scan"

\* C21: a stop of the process at any point of save_metadata leaves each persisted
\* collection entirely as it was or entirely as the save writes it: no file is
\* left cut short
C21_SavedFilesWhole == disk.torn = {}

\* C22: persistence round-trips the four collections: when the process is started
\* again after a successful save, the drives, the chunks, the migrations and the
\* file allocations are there as they were, so every file allocated before
\* can still be fetched and deleted by its file_id
C22_RestartRestoresAll ==
    [][(/\ load_metadata /\ UNCHANGED History
        /\ disk = MetadataFiles(drives, chunks, heap, migrations)) =>
          /\ drives' = drives
          /\ chunks' = chunks
          /\ DOMAIN migrations' = DOMAIN migrations
          /\ file_allocations' = file_allocations]_vars

\* the space debited on the drives for chunks: what the used counters hold beyond
\* the bytes of other things
Debited(dr) == SumOver(DOMAIN dr, [d \in DOMAIN dr |-> dr[d].used_space - Volume[d].other])

\* the sizes of the chunk records that exist
Recorded(ch, hp) == SumOver(DOMAIN ch, [c \in DOMAIN ch |-> hp[ch[c]].size])

\* C29: a file_id has one allocation, and it is the file's only reservation: when
\* allocate is called again for a file_id that has an allocation, the space debited
\* for it afterwards is the sum of the sizes of the chunk records that exist for it
\* (the debits and records of the other files are as before, so the space debited
\* for all files is the sum of the sizes of all records, if it was before)
C29_OneReservationPerFile ==
    (/\ last.op = "allocate" /\ last.code = 200
     /\ last.file_id \in DOMAIN last.file_allocations
     /\ Debited(last.drives) = Recorded(last.chunks, last.heap))
    => Debited(drives) = Recorded(chunks, heap)

\* C30: an allocation request sent through the backend, with file_size and file_id
\* as query parameters, for a size the drives can hold reaches allocate of the
\* storage service with the two values and is answered 200 with the allocation
C30_ProxyAllocates ==
    (last.op = "proxy_allocate" /\ last.fits) =>
       /\ last.code = 200
       /\ last.file_id \in DOMAIN file_allocations
       /\ file_allocations[last.file_id].file_size = last.file_size

\* the sizes of the chunk records on drive d
RecordedOn(ch, hp, d) ==
    SumOver(DOMAIN ch, [c \in DOMAIN ch |-> IF hp[ch[c]].drive_id = d THEN hp[ch[c]].size ELSE 0])

\* every drive is debited for the chunk records on it, and for nothing else
Accounted(dr, ch, hp) ==
    \A d \in DOMAIN dr :
       /\ dr[d].used_space = Volume[d].other + RecordedOn(ch, hp, d)
       /\ dr[d].free_space = dr[d].total_space - dr[d].used_space

\* the last request deleted a file while the worker of a migration of one of its
\* chunks had started and not yet switched, and no request was made since
DeletedInFlight ==
    /\ last.op = "delete" /\ last.code = 200 /\ requests = last.n
    /\ \E m \in DOMAIN last.migrations :
          /\ last.migrations[m].pc \in {"copy", "switch"}
          /\ last.migrations[m].chunk_id \in DOMAIN last.chunks
          /\ last.migrations[m].chunk_id[1] = last.file_id

\* C31: when a delete of a file falls between the start and the switch of a
\* migration of one of its chunks, then once both have finished all the file's
\* space is freed: no drive stays debited for the deleted chunk, and none is
\* credited twice for it (the drives were debited for the records and nothing
\* else when the delete was made, and are again)
C31_DeleteDuringMigrationFreesAll ==
    (DeletedInFlight /\ Idle /\ Accounted(last.drives, last.chunks, last.heap))
    => Accounted(drives, chunks, heap)

\* C32: in every state, the state right after the load at startup among them, the
\* drive_id of every chunk record is the id of a drive in the registry (ids are
\* the keys of a dict: one drive has it)
C32_ChunkOnRegisteredDrive ==
    \A c \in DOMAIN chunks : heap[chunks[c]].drive_id \in DOMAIN drives

\* the process was started over files of which the last one is cut short, and has
\* loaded drives and chunk records
C32_Witness == disk.torn = {"migrations"} /\ chunks # EmptyDict

\* C33: a successful allocate of file_size > 0 with chunk size C creates exactly
\* k = ceil(file_size / C) chunks, with the ids file_id_chunk_0 .. file_id_chunk_(k-1)
\* in this order; each but the last has size C, the last has size
\* file_size - (k - 1) * C, and each is recorded with status allocated
C33_ChunksOfAllocation ==
    (last.op = "allocate" /\ last.code = 200 /\ last.file_size > 0)
    => LET refs == file_allocations[last.file_id].chunks
           k == ChunksOf(last.file_size)
       IN /\ Len(refs) = k
          /\ \A i \in 1 .. k :
                /\ refs[i].id = <<last.file_id, i - 1>>
                /\ refs[i].size = IF i < k THEN ChunkSize
                                  ELSE last.file_size - (k - 1) * ChunkSize
                /\ refs[i].id \in DOMAIN chunks
                /\ heap[chunks[refs[i].id]].size = refs[i].size
                /\ heap[chunks[refs[i].id]].status = "allocated"

\* an allocation of two chunks, the second one smaller than the chunk size
C33_Witness ==
    /\ last.op = "allocate" /\ last.code = 200
    /\ last.file_size > ChunkSize /\ last.file_size < 2 * ChunkSize

\* the drives after the chunk objects from .. to of the heap were debited, one
\* after the other
RECURSIVE DebitedBy(_, _, _, _)
DebitedBy(dr, hp, from, to) ==
    IF to < from THEN dr
    ELSE LET before == DebitedBy(dr, hp, from, to - 1)
             d == hp[to].drive_id
         IN [before EXCEPT ![d].free_space = @ - hp[to].size,
                           ![d].used_space = @ + hp[to].size]

\* the chunk objects the last request created, in the order of their creation
Placed == (Len(last.heap) + 1) .. Len(heap)

\* C34: every chunk an allocate call places (the call ending in 200 or in 507) goes
\* to a drive that, with the earlier chunks of the call debited, is active and has
\* free_space >= the chunk's size, never to a readonly drive; and the counters
\* after the call are those before it debited by exactly the chunks it recorded
C34_PlacedOnEligibleDrive ==
    last.op = "allocate" =>
        /\ \A o \in Placed :
              LET at == DebitedBy(last.drives, heap, Len(last.heap) + 1, o - 1)
              IN /\ heap[o].drive_id \in DOMAIN at
                 /\ at[heap[o].drive_id].status = "active"
                 /\ at[heap[o].drive_id].status # "readonly"
                 /\ at[heap[o].drive_id].free_space >= heap[o].size
        /\ drives = DebitedBy(last.drives, heap, Len(last.heap) + 1, Len(heap))

\* an allocation placed two chunks while the readonly drive had the most free space
C34_Witness ==
    /\ last.op = "allocate" /\ Cardinality(Placed) = 2
    /\ \E d \in DOMAIN last.drives :
          /\ last.drives[d].status = "readonly"
          /\ \A e \in DOMAIN last.drives :
                last.drives[e].free_space <= last.drives[d].free_space

\* the free space the drives of the initial registry were constructed with
InitialFree(d) == Volume[d].total - Volume[d].other

\* C35: with no scan after the initial one and no migration worker under way, every
\* drive's free_space is its initial free_space less the sizes of the chunk records
\* whose drive_id is the drive, after any sequence of allocate, migrate and delete
C35_DebitsMatchRecords ==
    Idle => \A d \in DOMAIN drives :
               InitialFree(d) - drives[d].free_space = RecordedOn(chunks, heap, d)

\* C36: in every interleaving of allocate calls and migration workers no drive's
\* free_space is negative and no drive's used_space exceeds its total_space; two
\* migrations toward one target, each validated when it was requested, do not
\* together debit the target below zero
C36_CountersWithinBounds ==
    \A d \in DOMAIN drives :
       drives[d].free_space >= 0 /\ drives[d].used_space <= drives[d].total_space

\* no chunk id was given to two chunk objects (no file_id was allocated twice)
AllocatedOnce == \A i, j \in DOMAIN heap : i # j => heap[i].id # heap[j].id

\* C37: the allocation GET /files/{file_id} returns agrees with the chunk records:
\* every chunk reference of it has the drive_id and the path of the chunk record
\* with the same id, also after the chunk was migrated (looked at for files
\* allocated once; a second allocation of a file_id is the matter of C29)
C37_AllocationMatchesRecords ==
    AllocatedOnce => \A f \in DOMAIN file_allocations :
       \A i \in DOMAIN file_allocations[f].chunks :
          LET ref == file_allocations[f].chunks[i]
          IN ref.id \in DOMAIN chunks =>
                /\ ref.drive_id = heap[chunks[ref.id]].drive_id
                /\ ref.path = heap[chunks[ref.id]].path

\* the sizes of the chunk records on drive d whose file is not written yet
ReservedOn(d) ==
    SumOver(DOMAIN chunks,
            [c \in DOMAIN chunks |->
               IF heap[chunks[c]].drive_id = d /\ fs[<<d, c>>] = Absent
               THEN heap[chunks[c]].size ELSE 0])

\* C38: a scan does not discard reservations: right after a scan the free_space of
\* every drive is at most the free space measured on its volume less the sizes of
\* the chunks reserved on it and not written yet (so that a later allocate is not
\* granted space that is reserved already)
C38_ScanKeepsReservations ==
    last.op = "scan" =>
       \A d \in DOMAIN drives :
          drives[d].free_space <= disk_usage(d, fs, heap).free - ReservedOn(d)

\* C39: whenever a migration task that ran alone ends failed, whatever step raised
\* (the copy, or the removal of the old bytes after the copy succeeded), the chunk
\* record's drive_id and path and the counters of both drives are those of before
\* the task started
C39_FailedTaskChangesNothing ==
    (LastMigrated /\ LastTask.status = "failed")
    => /\ heap[LastObj].drive_id = last.heap[LastObj].drive_id
       /\ heap[LastObj].path = last.heap[LastObj].path
       /\ drives[LastTask.source_drive] = last.drives[LastTask.source_drive]
       /\ drives[LastTask.target_drive] = last.drives[LastTask.target_drive]
====
